---- MODULE Spec2Model ----
(***************************************************************************)
(* Per-core NVMe I/O channel (bdev/dev/nvmx/channel.rs) and NVMe-oF bdev   *)
(* attachment (nvmf_dev.rs).                                               *)
(*                                                                         *)
(* Spec       : channel create / destroy / poller on the cores' run loops. *)
(* SpecAttach : NvmfBdev::create with its one-shot completion, and the     *)
(*              driver's completion callback nvme_done.                    *)
(***************************************************************************)
EXTENDS Integers, FiniteSets, Sequences, TLC

(* ----------------------------- bounds --------------------------------- *)

\* channel contexts the device-channel framework hands to create; every
\* create call receives a freshly allocated context
NumCtx == 2

\* completed I/O a poll group may report in one poller run
MaxCompletions == 1

\* concurrent NvmfBdev::create calls
NumTasks == 2

\* key/value pairs in the query of a URL
MaxQuery == 2

\* largest queue depth tried for the controller default and for the
\* configured default
MaxDepth == 10

\* cores that create channels concurrently, and create calls per core
NumCores == 2
MaxCalls == 2

Ctx == 1 .. NumCtx

\* device identities handed to create; NVME_CONTROLLERS holds Registered
DeviceIds == {1, 2, 3}
Registered == {1, 2}

\* a null raw pointer; live handles are positive
Null == 0

\* no status: the call has not returned one; a status v is kept as << v >>
NoRc == << >>

(* --------------------------- channel state ---------------------------- *)

VARIABLES
    alive,        \* the process has not aborted
    poisoned,     \* controller id -> its Mutex is poisoned
    called,       \* ctx -> "fresh" | "returned" | "panicked"
    rc,           \* ctx -> status returned by create (NoRc if none)
    qpair,        \* ctx -> state of the queue pair allocated by create(ctx)
    poll_group,   \* ctx -> "null" | "live" | "freed"
    poller,       \* ctx -> "null" | "registered" | "unregistered"
    member,       \* ctx -> the queue pair is in its poll group
    inner,        \* ctx -> NvmeIoChannel.inner: Null or the handle of the box
    heap,         \* handle -> contents of the boxed NvmeIoChannelInner
    innerLive,    \* handle -> the boxed NvmeIoChannelInner is allocated
    destroyed,    \* ctx -> destroy has been called on it
    last          \* the operation that ran last, its inputs and what it did

chanVars == << alive, poisoned, called, rc, qpair, poll_group, poller, member,
               inner, heap, innerLive, destroyed, last >>

(* -------------------------- attachment state -------------------------- *)

VARIABLES
    bdevs,        \* names of the local block devices
    tpc,          \* task -> "idle" | "awaiting" | "returned" | "abandoned"
    tname,        \* task -> self.name of the call
    existed,      \* task -> self.name was a local device when create was called
    siteErrno,    \* task -> value returned by spdk_bdev_nvme_create (NoRc if not called)
    createCalls,  \* task -> number of spdk_bdev_nvme_create calls issued
    cb,           \* task -> "none" | "pending" | "fired" | "faulted"
    cbRc,         \* task -> rc handed to nvme_done (NoRc if none)
    receiver,     \* task -> "none" | "open" | "dropped"
    sent,         \* task -> value placed in the one-shot channel
    result        \* task -> what create returned

attVars == << bdevs, tpc, tname, existed, siteErrno, createCalls, cb, cbRc,
              receiver, sent, result >>

\* everything of the attachment state but the set of local devices
attTasks == << tpc, tname, existed, siteErrno, createCalls, cb, cbRc,
               receiver, sent, result >>

(* -------------------------- detachment state -------------------------- *)

VARIABLES
    dlast         \* the last NvmfBdev::destroy call: its inputs and what it did

detVars == << dlast >>

(* --------------------------- URL parsing state ------------------------ *)

VARIABLES
    url,          \* the &Url handed to NvmfBdev::try_from
    parsed        \* what try_from returned, kind "none" before the call

urlVars == << url, parsed >>

(* --------------------------- queue depth state ------------------------ *)

VARIABLES
    qd            \* the last queue pair allocation: the two depths it merged
                  \* and the depth it asked for

depthVars == << qd >>

(* ------------------------- concurrent creates ------------------------- *)

VARIABLES
    cpc,          \* core -> where its create call stands: "idle" | "locking"
                  \*   | "held" | "returned" | "panicked"
    cdev,         \* core -> the controller id of its create call
    cret,         \* core -> status its last create call returned
    ncalls,       \* core -> create calls it has started
    guard         \* controller id -> its Mutex is locked

concVars == << cpc, cdev, cret, ncalls, guard >>

\* the channel state that concurrent creates are not followed through
\* what a step of a concurrent create can change
concStep == << concVars, alive, poisoned >>

chanRest == << called, rc, qpair, poll_group, poller, member, inner, heap,
               innerLive, destroyed, last >>

vars == << chanVars, attVars, detVars, urlVars, depthVars, concVars >>

(* ------------------------ channel: helpers ---------------------------- *)

\* what a panic inside an extern "C" function can do to the process
PanicModes == {"abort", "unwind"}

NullInner == [qpair |-> Null, poll_group |-> Null, poller |-> Null]

\* the driver calls of create, in source order; the answers of the driver are
\* given by the first call that fails, "none" if every call succeeds
DriverCalls == << "alloc_io_qpair", "poll_group_create", "poller_register",
                 "poll_group_add", "connect_io_qpair" >>

FailPoints == {"none"} \cup { DriverCalls[i] : i \in 1 .. Len(DriverCalls) }

\* NVME_CONTROLLERS.lookup_by_name(id.to_string())
lookup_by_name(dev) == dev \in Registered

\* the driver calls create has made when failAt is the first one to fail:
\* the query of the default options, then DriverCalls up to failAt
CallsMade(failAt) ==
    LET upto == IF failAt = "none" THEN Len(DriverCalls)
                ELSE CHOOSE i \in 1 .. Len(DriverCalls) :
                         DriverCalls[i] = failAt
    IN  << "get_default_io_qpair_opts" >> \o SubSeq(DriverCalls, 1, upto)

\* a create that goes on without a controller
LookupFailed_ignored(dev) == FALSE

\* the early return of create when the registry has no such controller
LookupFailed(dev) == ~lookup_by_name(dev)

\* The body of NvmeControllerIoChannel::create as a function of the lookup
\* and of the results of the driver calls it makes, in source order.
CreateBody(dev, isPoisoned, failAt) ==
    LET qpOk == failAt # "alloc_io_qpair"
        pgOk == failAt # "poll_group_create"
        plOk == failAt # "poller_register"
        addRc == IF failAt = "poll_group_add" THEN -6 ELSE 0
        connRc == IF failAt = "connect_io_qpair" THEN -6 ELSE 0
        none == [exit |-> "return", rc |-> 1, locked |-> FALSE,
                 calls |-> << >>, create_only |-> FALSE,
                 qpair |-> "null", poll_group |-> "null", poller |-> "null",
                 boxed |-> FALSE, member |-> FALSE]
        held == [none EXCEPT !.locked = TRUE, !.calls = CallsMade(failAt),
                             !.create_only = TRUE]
    IN  IF LookupFailed(dev) THEN none
        ELSE IF isPoisoned
            THEN [none EXCEPT !.exit = "panic"]
        ELSE IF ~qpOk
            THEN held
        ELSE IF ~pgOk
            THEN [held EXCEPT !.qpair = "created"]
        ELSE IF ~plOk
            THEN [held EXCEPT !.exit = "panic",
                              !.qpair = "created", !.poll_group = "live"]
        ELSE IF addRc # 0
            THEN [held EXCEPT !.qpair = "created",
                              !.poll_group = "live", !.poller = "registered",
                              !.boxed = TRUE]
        ELSE IF connRc # 0
            THEN [held EXCEPT !.qpair = "created",
                              !.poll_group = "live", !.poller = "registered",
                              !.boxed = TRUE, !.member = TRUE]
        ELSE [held EXCEPT !.rc = 0, !.qpair = "connected",
                          !.poll_group = "live", !.poller = "registered",
                          !.boxed = TRUE, !.member = TRUE]

\* a create that connects the queue pair without adding it to the poll group
CreateOutcome_notAdded(dev, isPoisoned, failAt) ==
    LET o == CreateBody(dev, isPoisoned, failAt)
    IN  [o EXCEPT !.member = FALSE,
                  !.calls = SelectSeq(o.calls,
                                      LAMBDA x : x # "poll_group_add")]

\* what NvmeControllerIoChannel::create does and returns
CreateOutcome(dev, isPoisoned, failAt) == CreateBody(dev, isPoisoned, failAt)

\* the transport reports a queue pair of a poll group as disconnected while
\* it is a member that is not connected
ReportsDisconnected(q) ==
    member[q] /\ qpair[q] \in {"created", "disconnected"}

\* a callback that reconnects the pair a second time
disconnected_qpair_cb_twice(q, ok) ==
    [attempts |-> 2, qpair |-> IF ok THEN "connected" ELSE q]

\* a callback that gives the pair up when the reconnect fails
disconnected_qpair_cb_freeing(q, ok) ==
    [attempts |-> 1, qpair |-> IF ok THEN "connected" ELSE "freed"]

\* disconnected_qpair_cb: one spdk_nvme_ctrlr_reconnect_io_qpair on the pair
\* in state q, which the transport answers with ok or not; a pair that could
\* not be reconnected stays as it was
disconnected_qpair_cb(q, ok) ==
    [attempts |-> 1, qpair |-> IF ok THEN "connected" ELSE q]

\* the per-channel resources of a context
ChannelResources(c) ==
    [qpair |-> qpair[c], poll_group |-> poll_group[c], poller |-> poller[c],
     member |-> member[c], inner |-> inner[c], innerLive |-> innerLive[c],
     releases |-> 0]

\* a destroy that releases the four resources whatever state they are in
destroy_releasing(st) ==
    [st EXCEPT !.poller = "unregistered", !.member = FALSE,
               !.poll_group = "freed", !.qpair = "freed",
               !.innerLive = FALSE, !.inner = Null, !.releases = 4]

\* NvmeControllerIoChannel::destroy: the resources as it leaves them, and
\* the number of driver release calls it makes
destroy(st) == st

\* the record kept of the last operation
NoOp == [op |-> "none", ctx |-> Null, dev |-> Null, failAt |-> "none",
         locked |-> FALSE, calls |-> << >>, create_only |-> FALSE,
         repeat |-> FALSE, releases |-> 0, observed |-> FALSE,
         reconnects |-> 0, drained |-> 0, ret |-> 0, logged |-> FALSE,
         polled |-> FALSE, dangling |-> FALSE]

(* ------------------------ channel: operations ------------------------- *)

ChanInit ==
    /\ alive = TRUE
    /\ poisoned = [d \in Registered |-> FALSE]
    /\ called = [c \in Ctx |-> "fresh"]
    /\ rc = [c \in Ctx |-> NoRc]
    /\ qpair = [c \in Ctx |-> "null"]
    /\ poll_group = [c \in Ctx |-> "null"]
    /\ poller = [c \in Ctx |-> "null"]
    /\ member = [c \in Ctx |-> FALSE]
    /\ inner = [c \in Ctx |-> Null]
    /\ heap = [c \in Ctx |-> NullInner]
    /\ innerLive = [c \in Ctx |-> FALSE]
    /\ destroyed = [c \in Ctx |-> FALSE]
    /\ last = NoOp

\* NvmeControllerIoChannel::create(device, ctx)
Create(c, dev, failAt) ==
    /\ alive
    /\ called[c] = "fresh"
    /\ ~destroyed[c]
    /\ LET o == CreateOutcome(dev, IF dev \in Registered THEN poisoned[dev]
                                   ELSE FALSE,
                              failAt)
       IN  /\ qpair' = [qpair EXCEPT ![c] = o.qpair]
           /\ poll_group' = [poll_group EXCEPT ![c] = o.poll_group]
           /\ poller' = [poller EXCEPT ![c] = o.poller]
           /\ member' = [member EXCEPT ![c] = o.member]
           /\ innerLive' = [innerLive EXCEPT ![c] = o.boxed]
           /\ heap' = IF o.boxed
                      THEN [heap EXCEPT ![c] = [qpair |-> c, poll_group |-> c,
                                                poller |-> c]]
                      ELSE heap
           /\ inner' = IF o.boxed THEN [inner EXCEPT ![c] = c] ELSE inner
           /\ IF o.exit = "return"
              THEN /\ called' = [called EXCEPT ![c] = "returned"]
                   /\ rc' = [rc EXCEPT ![c] = << o.rc >>]
                   /\ UNCHANGED << alive, poisoned >>
              ELSE /\ called' = [called EXCEPT ![c] = "panicked"]
                   /\ rc' = rc
                   /\ \E mode \in PanicModes :
                        /\ alive' = (mode = "unwind")
                        /\ poisoned' = IF mode = "unwind" /\ o.locked
                                       THEN [poisoned EXCEPT ![dev] = TRUE]
                                       ELSE poisoned
           /\ last' = [NoOp EXCEPT !.op = "create", !.ctx = c, !.dev = dev,
                                   !.failAt = failAt, !.locked = o.locked,
                                   !.calls = o.calls,
                                   !.create_only = o.create_only]
    /\ UNCHANGED destroyed

\* NvmeControllerIoChannel::destroy(device, ctx)
Destroy(c) ==
    /\ alive
    /\ LET st == destroy(ChannelResources(c))
       IN  /\ qpair' = [qpair EXCEPT ![c] = st.qpair]
           /\ poll_group' = [poll_group EXCEPT ![c] = st.poll_group]
           /\ poller' = [poller EXCEPT ![c] = st.poller]
           /\ member' = [member EXCEPT ![c] = st.member]
           /\ inner' = [inner EXCEPT ![c] = st.inner]
           /\ innerLive' = [innerLive EXCEPT ![c] = st.innerLive]
           /\ last' = [NoOp EXCEPT !.op = "destroy", !.ctx = c,
                          !.repeat = destroyed[c] \/ called[c] = "fresh",
                          !.releases = st.releases]
    /\ destroyed' = [destroyed EXCEPT ![c] = TRUE]
    /\ UNCHANGED << alive, poisoned, called, rc, heap >>

\* The framework frees the memory of a context once destroy has returned for
\* it and when create returned a failure code for it; a poller that is still
\* registered then runs on a dangling context.
Dangling(c) ==
    destroyed[c] \/ (called[c] = "returned" /\ rc[c] # << 0 >>)

\* What nvme_poll reads through ctx: the inner pointer and, through it, the
\* three handles of the box.  On a valid context these are the stored values;
\* on a dangling one every word read is either the stale value or zero, and
\* behind a zero inner pointer there is nothing to read.
PollReads(c) ==
    IF Dangling(c)
    THEN { [inner |-> Null, qpair |-> Null, poll_group |-> Null,
            poller |-> Null] }
         \cup [inner : {inner[c]},
               qpair : {Null, heap[inner[c]].qpair},
               poll_group : {Null, heap[inner[c]].poll_group},
               poller : {Null, heap[inner[c]].poller}]
    ELSE { [inner |-> inner[c], qpair |-> heap[inner[c]].qpair,
            poll_group |-> heap[inner[c]].poll_group,
            poller |-> heap[inner[c]].poller] }

\* the three null checks of nvme_poll: whether any of them logs
NullLogged(box) ==
    box.poller = Null \/ box.poll_group = Null \/ box.qpair = Null

\* numbers of completed I/Os the poll group g can report in one run: only a
\* connected member has I/O in flight
Completions(g) ==
    IF member[g] /\ qpair[g] = "connected" THEN 0 .. MaxCompletions ELSE {0}

\* nvme_poll(ctx), invoked by the run loop for a registered poller; the
\* transport answers a reconnect, if one is made, with ok and reports
\* num_completions completed I/Os.  Dereferencing a null inner pointer, and
\* draining a null poll group, fault.
Poll(c) ==
    /\ alive
    /\ poller[c] = "registered"
    /\ inner[c] # Null
    /\ \E box \in PollReads(c) :
        LET g == box.poll_group
            polled == box.inner # Null
            fault == box.inner = Null \/ g = Null
            rec == [NoOp EXCEPT !.op = "poll", !.ctx = c,
                                !.logged = polled /\ NullLogged(box),
                                !.polled = polled,
                                !.dangling = Dangling(c)]
        IN  IF fault
            THEN /\ alive' = FALSE
                 /\ qpair' = qpair
                 /\ last' = rec
            ELSE /\ alive' = alive
                 /\ IF ReportsDisconnected(g)
                    THEN \E ok \in BOOLEAN :
                           LET cbres == disconnected_qpair_cb(qpair[g], ok)
                           IN  /\ qpair' = [qpair EXCEPT ![g] = cbres.qpair]
                               /\ last' = [rec EXCEPT
                                             !.observed = TRUE,
                                             !.reconnects = cbres.attempts]
                    ELSE \E num_completions \in Completions(g) :
                           /\ qpair' = qpair
                           /\ last' = [rec EXCEPT
                                         !.drained = num_completions,
                                         !.ret = IF num_completions > 0
                                                 THEN 1 ELSE 0]
    /\ UNCHANGED << poisoned, called, rc, poll_group, poller, member,
                    inner, heap, innerLive, destroyed >>

\* the transport drops the connection of a connected queue pair
Disconnect(c) ==
    /\ alive
    /\ qpair[c] = "connected"
    /\ qpair' = [qpair EXCEPT ![c] = "disconnected"]
    /\ last' = [NoOp EXCEPT !.op = "disconnect", !.ctx = c]
    /\ UNCHANGED << alive, poisoned, called, rc, poll_group, poller, member,
                    inner, heap, innerLive, destroyed >>

ChanNext ==
    \/ \E c \in Ctx, dev \in DeviceIds, failAt \in FailPoints :
          Create(c, dev, failAt)
    \/ \E c \in Ctx : Destroy(c)
    \/ \E c \in Ctx : Poll(c)
    \/ \E c \in Ctx : Disconnect(c)

(* ----------------------- attachment: helpers -------------------------- *)

Task == 1 .. NumTasks

\* device names, as sequences of name parts
Names == { <<"a">>, <<"b">> }

NoName == << >>

\* errno values handed back by the driver, at the call site and to nvme_done
Errnos == {-22, 0}

\* executor::errno_result_from_i32((), errno)
errno_result_from_i32(errno) ==
    IF errno = 0 THEN [ok |-> TRUE, errno |-> 0]
    ELSE [ok |-> FALSE, errno |-> IF errno < 0 THEN 0 - errno ELSE errno]

\* bdev::bdev_lookup_by_name(name).is_some()
bdev_lookup_by_name(name) == name \in bdevs

\* ctx.names[0], the name the driver gives the bdev of the one namespace
AssignedName(name) == name \o << "n1" >>

\* a create that does not look the name up
ExistsCheck_skipped(name) == FALSE

\* the early return of NvmfBdev::create when self.name is already a bdev
ExistsCheck(name) == bdev_lookup_by_name(name)

\* a create that ignores the value returned by spdk_bdev_nvme_create
CallSiteRejected_ignored(errno) == FALSE

\* the ? on the value returned by spdk_bdev_nvme_create
CallSiteRejected(errno) == ~errno_result_from_i32(errno).ok

\* what create returns once the receiver yields the value v
AwaitResult(name, v) ==
    IF v.ok THEN [kind |-> "Ok", name |-> AssignedName(name), errno |-> 0]
    ELSE [kind |-> "CreateBdev", name |-> name, errno |-> v.errno]

\* Sender::send: the value reaches the channel unless the receiver is gone
SendOk(rcv) == rcv = "open"

NoResult == [kind |-> "none", name |-> NoName, errno |-> 0]

Empty == [full |-> FALSE, ok |-> FALSE, errno |-> 0]

(* ---------------------- attachment: operations ------------------------ *)

AttInit ==
    /\ tpc = [t \in Task |-> "idle"]
    /\ tname = [t \in Task |-> NoName]
    /\ existed = [t \in Task |-> FALSE]
    /\ siteErrno = [t \in Task |-> NoRc]
    /\ createCalls = [t \in Task |-> 0]
    /\ cb = [t \in Task |-> "none"]
    /\ cbRc = [t \in Task |-> NoRc]
    /\ receiver = [t \in Task |-> "none"]
    /\ sent = [t \in Task |-> Empty]
    /\ result = [t \in Task |-> NoResult]

\* NvmfBdev::create, from the call to its return or to the await
NvmfCreate(t, name, errno) ==
    /\ tpc[t] = "idle"
    /\ tname' = [tname EXCEPT ![t] = name]
    /\ existed' = [existed EXCEPT ![t] = bdev_lookup_by_name(name)]
    /\ IF ExistsCheck(name)
       THEN /\ result' = [result EXCEPT ![t] =
                   [kind |-> "BdevExists", name |-> name, errno |-> 0]]
            /\ tpc' = [tpc EXCEPT ![t] = "returned"]
            /\ receiver' = [receiver EXCEPT ![t] = "dropped"]
            /\ UNCHANGED << siteErrno, createCalls, cb >>
       ELSE /\ createCalls' = [createCalls EXCEPT ![t] = @ + 1]
            /\ siteErrno' = [siteErrno EXCEPT ![t] = << errno >>]
            /\ IF CallSiteRejected(errno)
               THEN /\ result' = [result EXCEPT ![t] =
                           [kind |-> "InvalidParams", name |-> name,
                            errno |-> errno_result_from_i32(errno).errno]]
                    /\ tpc' = [tpc EXCEPT ![t] = "returned"]
                    /\ receiver' = [receiver EXCEPT ![t] = "dropped"]
                    /\ cb' = cb
               ELSE /\ tpc' = [tpc EXCEPT ![t] = "awaiting"]
                    /\ receiver' = [receiver EXCEPT ![t] = "open"]
                    /\ cb' = [cb EXCEPT ![t] = "pending"]
                    /\ result' = result
    /\ UNCHANGED << bdevs, cbRc, sent >>

\* the driver finishes the creation and calls NvmfBdev::nvme_done(ctx, _, rc)
nvme_done(t, errno) ==
    /\ cb[t] = "pending"
    /\ cbRc' = [cbRc EXCEPT ![t] = << errno >>]
    /\ bdevs' = IF errno = 0 THEN bdevs \cup {AssignedName(tname[t])}
                ELSE bdevs
    /\ IF SendOk(receiver[t])
       THEN /\ sent' = [sent EXCEPT ![t] =
                   [full |-> TRUE, ok |-> errno_result_from_i32(errno).ok,
                    errno |-> errno_result_from_i32(errno).errno]]
            /\ cb' = [cb EXCEPT ![t] = "fired"]
       ELSE /\ sent' = sent
            /\ cb' = [cb EXCEPT ![t] = "faulted"]
    /\ UNCHANGED << tpc, tname, existed, siteErrno, createCalls, receiver,
                    result >>

\* the executor resumes create after receiver.await has a value
Resume(t) ==
    /\ tpc[t] = "awaiting"
    /\ sent[t].full
    /\ result' = [result EXCEPT ![t] = AwaitResult(tname[t], sent[t])]
    /\ tpc' = [tpc EXCEPT ![t] = "returned"]
    /\ receiver' = [receiver EXCEPT ![t] = "dropped"]
    /\ UNCHANGED << bdevs, tname, existed, siteErrno, createCalls, cb, cbRc,
                    sent >>

\* the future of create is dropped while it awaits the receiver
Abandon(t) ==
    /\ tpc[t] = "awaiting"
    /\ tpc' = [tpc EXCEPT ![t] = "abandoned"]
    /\ receiver' = [receiver EXCEPT ![t] = "dropped"]
    /\ UNCHANGED << bdevs, tname, existed, siteErrno, createCalls, cb, cbRc,
                    sent, result >>

AttNext ==
    \/ \E t \in Task, name \in Names, errno \in Errnos :
          NvmfCreate(t, name, errno)
    \/ \E t \in Task, errno \in Errnos : nvme_done(t, errno)
    \/ \E t \in Task : Resume(t)
    \/ \E t \in Task : Abandon(t)

(* ---------------------------- detachment ------------------------------ *)

\* names a local device can have: those of requests and those the driver gives
DevNames == Names \cup { AssignedName(n) : n \in Names }

NoDetach == [called |-> FALSE, self |-> NoName, bdev_name |-> NoName,
             found |-> FALSE, deleteCalls |-> 0, target |-> NoName,
             errno |-> NoRc, kind |-> "none", name |-> NoName]

DetInit == dlast = NoDetach

\* a destroy that does not look the device up
NotFoundCheck_skipped(bdev_name) == FALSE

\* the early return of NvmfBdev::destroy when bdev_name is no local device
NotFoundCheck(bdev_name) == ~bdev_lookup_by_name(bdev_name)

\* the name NvmfBdev::destroy hands to spdk_bdev_nvme_delete
DeleteTarget(self, bdev_name) == self

\* what NvmfBdev::destroy returns for the value of spdk_bdev_nvme_delete
DestroyResult(self, errno) ==
    IF errno_result_from_i32(errno).ok THEN [kind |-> "Ok", name |-> NoName]
    ELSE [kind |-> "DestroyBdev", name |-> self]

\* NvmfBdev::destroy(self, bdev_name); the driver answers the delete with errno
\* and on 0 has removed the controller of that name and its bdev
Detach(self, bdev_name, errno) ==
    IF NotFoundCheck(bdev_name)
    THEN /\ dlast' = [NoDetach EXCEPT
                         !.called = TRUE, !.self = self,
                         !.bdev_name = bdev_name,
                         !.found = bdev_lookup_by_name(bdev_name),
                         !.kind = "BdevNotFound", !.name = bdev_name]
         /\ bdevs' = bdevs
    ELSE LET target == DeleteTarget(self, bdev_name)
             res == DestroyResult(self, errno)
         IN  /\ dlast' = [NoDetach EXCEPT
                             !.called = TRUE, !.self = self,
                             !.bdev_name = bdev_name,
                             !.found = bdev_lookup_by_name(bdev_name),
                             !.deleteCalls = 1, !.target = target,
                             !.errno = << errno >>,
                             !.kind = res.kind, !.name = res.name]
             /\ bdevs' = IF errno = 0
                         THEN bdevs \ {target, AssignedName(target)}
                         ELSE bdevs

DetNext ==
    \E self \in Names, bdev_name \in DevNames, errno \in Errnos :
        Detach(self, bdev_name, errno)

(* ---------------------------- URL parsing ----------------------------- *)

\* An Option is a sequence of length 0 (None) or 1 (Some).  A Url is given by
\* what its accessors return: host_str(), port(), path_segments() collected,
\* and query_pairs() as << key, value >> pairs.
Hosts == { << >>, << "10.0.0.5" >> }

Ports == { << >>, << 80 >>, << 4420 >> }

Paths == { << >>, << << "nqn.test-subsys" >> >>, << << "" >> >>,
           << << "nqn.test-subsys", "x" >> >> }

QueryPairs == { << "hostnqn", "nqn.host" >>, << "reftag", "" >>,
                << "guard", "" >>, << "foo", "1" >> }

Queries == UNION { [1 .. n -> QueryPairs] : n \in 0 .. MaxQuery }

Urls == [host : Hosts, port : Ports, path : Paths, query : Queries]

Digits == << "0", "1", "2", "3", "4", "5", "6", "7", "8", "9" >>

\* u16::to_string: the decimal digits of n, most significant first
RECURSIVE to_string(_)
to_string(n) ==
    IF n < 10 THEN << Digits[n + 1] >>
    ELSE to_string(n \div 10) \o << Digits[(n % 10) + 1] >>

\* a parse without the default for a missing port
ServiceId_noDefault(port) ==
    IF port # << >> THEN to_string(port[1]) ELSE << >>

\* n.trsvcid: the port as text, "4420" when the URL has none
ServiceId(port) ==
    IF port # << >> THEN to_string(port[1]) ELSE << "4", "4", "2", "0" >>

\* NvmfBdev::default() with the url it is parsed from as name
DefaultBdev ==
    [name |-> << >>, trtype |-> "", adrfam |-> "", traddr |-> "",
     trsvcid |-> << >>, subnqn |-> "", hostnqn |-> "",
     prchk_reftag |-> FALSE, prchk_guard |-> FALSE]

\* one iteration of the loop over the query pairs
ApplyPair(n, kv) ==
    IF kv[1] = "hostnqn" THEN [n EXCEPT !.hostnqn = kv[2]]
    ELSE IF kv[1] = "reftag" THEN [n EXCEPT !.prchk_reftag = TRUE]
    ELSE IF kv[1] = "guard" THEN [n EXCEPT !.prchk_guard = TRUE]
    ELSE n

RECURSIVE ApplyQuery(_, _)
ApplyQuery(n, q) ==
    IF q = << >> THEN n ELSE ApplyQuery(ApplyPair(n, Head(q)), Tail(q))

\* <NvmfBdev as TryFrom<&Url>>::try_from; n.name is u.to_string(), kept as
\* the accessor values of u
try_from(u) ==
    IF u.path = << >>
    THEN [kind |-> "PathMissing", req |-> DefaultBdev]
    ELSE IF u.host = << >>
    THEN [kind |-> "panic", req |-> DefaultBdev]
    ELSE [kind |-> "Ok",
          req |-> ApplyQuery([DefaultBdev EXCEPT
                                 !.trtype = "TCP", !.adrfam = "IPv4",
                                 !.subnqn = u.path[1][1],
                                 !.trsvcid = ServiceId(u.port),
                                 !.traddr = u.host[1],
                                 !.name = << u >>],
                             u.query)]

NotParsed == [kind |-> "none", req |-> DefaultBdev]

UrlIdle == url = [host |-> << >>, port |-> << >>, path |-> << >>,
                  query |-> << >>] /\ parsed = NotParsed

UrlInit == url \in Urls /\ parsed = NotParsed

\* NvmfBdev::try_from(&url)
TryFrom ==
    /\ parsed.kind = "none"
    /\ parsed' = try_from(url)
    /\ url' = url

(* ---------------------------- queue depth ----------------------------- *)

\* values of opts.io_queue_requests and of the configured default
Depths == 0 .. MaxDepth

NoAlloc == [allocated |-> FALSE, opt |-> 0, cfg |-> 0, used |-> 0]

DepthInit == qd = NoAlloc

\* a merge that takes the configured depth whatever the controller reports
MergeQueueDepth_configured(optQ, cfgQ) == cfgQ

\* max(opts.io_queue_requests, default_opts.io_queue_requests)
MergeQueueDepth(optQ, cfgQ) == IF cfgQ > optQ THEN cfgQ ELSE optQ

\* the part of create up to spdk_nvme_ctrlr_alloc_io_qpair, for controller
\* dev whose transport default is optQ while the configured default is cfgQ
AllocQpair(dev, optQ, cfgQ) ==
    LET o == CreateOutcome(dev, FALSE, "none")
        reached == \E i \in 1 .. Len(o.calls) : o.calls[i] = "alloc_io_qpair"
    IN  qd' = IF reached
              THEN [allocated |-> TRUE, opt |-> optQ, cfg |-> cfgQ,
                    used |-> MergeQueueDepth(optQ, cfgQ)]
              ELSE NoAlloc

DepthNext ==
    \E dev \in DeviceIds, optQ \in Depths, cfgQ \in Depths :
        AllocQpair(dev, optQ, cfgQ)

(* ------------------------ concurrent creates -------------------------- *)

Cores == 1 .. NumCores

ConcInit ==
    /\ cpc = [k \in Cores |-> "idle"]
    /\ cdev = [k \in Cores |-> Null]
    /\ cret = [k \in Cores |-> NoRc]
    /\ ncalls = [k \in Cores |-> 0]
    /\ guard = [d \in Registered |-> FALSE]

\* core k enters create(dev, ctx): the controller lookup, which returns 1
\* without touching any Mutex when the controller is absent
Begin(k, dev) ==
    /\ alive
    /\ cpc[k] \in {"idle", "returned"}
    /\ ncalls[k] < MaxCalls
    /\ ncalls' = [ncalls EXCEPT ![k] = @ + 1]
    /\ cdev' = [cdev EXCEPT ![k] = dev]
    /\ IF LookupFailed(dev)
       THEN /\ cpc' = [cpc EXCEPT ![k] = "returned"]
            /\ cret' = [cret EXCEPT ![k] =
                            << CreateOutcome(dev, FALSE, "none").rc >>]
       ELSE /\ cpc' = [cpc EXCEPT ![k] = "locking"]
            /\ cret' = [cret EXCEPT ![k] = NoRc]
    /\ UNCHANGED << alive, poisoned, guard >>

\* controller.lock().expect("lock error"): blocks while another core holds
\* the Mutex; on a poisoned Mutex lock() returns Err and expect panics, which
\* drops the guard carried by the error
Lock(k, mode) ==
    /\ alive
    /\ cpc[k] = "locking"
    /\ ~guard[cdev[k]]
    /\ IF CreateOutcome(cdev[k], poisoned[cdev[k]], "none").exit = "panic"
       THEN /\ cpc' = [cpc EXCEPT ![k] = "panicked"]
            /\ alive' = (mode = "unwind")
            /\ guard' = guard
       ELSE /\ cpc' = [cpc EXCEPT ![k] = "held"]
            /\ guard' = [guard EXCEPT ![cdev[k]] = TRUE]
            /\ alive' = alive
    /\ UNCHANGED << poisoned, cdev, cret, ncalls >>

\* the rest of create, run while holding the guard: it returns a status, or
\* panics; the guard is dropped when the function is left either way, and a
\* guard dropped by a panic poisons the Mutex
Body(k, failAt, mode) ==
    /\ alive
    /\ cpc[k] = "held"
    /\ LET o == CreateOutcome(cdev[k], FALSE, failAt)
       IN  IF o.exit = "return"
           THEN /\ cpc' = [cpc EXCEPT ![k] = "returned"]
                /\ cret' = [cret EXCEPT ![k] = << o.rc >>]
                /\ guard' = [guard EXCEPT ![cdev[k]] = FALSE]
                /\ UNCHANGED << alive, poisoned >>
           ELSE /\ cpc' = [cpc EXCEPT ![k] = "panicked"]
                /\ cret' = cret
                /\ alive' = (mode = "unwind")
                /\ guard' = IF mode = "unwind"
                            THEN [guard EXCEPT ![cdev[k]] = FALSE]
                            ELSE guard
                /\ poisoned' = IF mode = "unwind"
                               THEN [poisoned EXCEPT ![cdev[k]] = TRUE]
                               ELSE poisoned
    /\ UNCHANGED << cdev, ncalls >>

CoreStep(k) ==
    \/ \E dev \in DeviceIds : Begin(k, dev)
    \/ \E mode \in PanicModes : Lock(k, mode)
    \/ \E failAt \in FailPoints, mode \in PanicModes : Body(k, failAt, mode)

ConcNext == \E k \in Cores : CoreStep(k)

(* -------------------------- specifications ---------------------------- *)

Init ==
    ChanInit /\ AttInit /\ bdevs = {} /\ DetInit /\ UrlIdle
    /\ DepthInit /\ ConcInit

Next == ChanNext /\ UNCHANGED << attVars, detVars, urlVars, depthVars, concVars >>

Spec == Init /\ [][Next]_vars

InitAttach ==
    ChanInit /\ AttInit /\ bdevs \in SUBSET Names /\ DetInit /\ UrlIdle
    /\ DepthInit /\ ConcInit

NextAttach ==
    AttNext /\ UNCHANGED << chanVars, detVars, urlVars, depthVars, concVars >>

SpecAttach == InitAttach /\ [][NextAttach]_vars

InitDetach ==
    ChanInit /\ AttInit /\ bdevs \in SUBSET DevNames /\ DetInit /\ UrlIdle
    /\ DepthInit /\ ConcInit

NextDetach ==
    DetNext /\ UNCHANGED << chanVars, attTasks, urlVars, depthVars, concVars >>

SpecDetach == InitDetach /\ [][NextDetach]_vars

InitParse ==
    ChanInit /\ AttInit /\ bdevs = {} /\ DetInit /\ UrlInit
    /\ DepthInit /\ ConcInit

NextParse ==
    TryFrom /\ UNCHANGED << chanVars, attVars, detVars, depthVars, concVars >>

SpecParse == InitParse /\ [][NextParse]_vars

InitDepth == Init

NextDepth ==
    DepthNext
    /\ UNCHANGED << chanVars, attVars, detVars, urlVars, concVars >>

SpecDepth == InitDepth /\ [][NextDepth]_vars

InitConc == Init

NextConc ==
    ConcNext
    /\ UNCHANGED << chanRest, attVars, detVars, urlVars, depthVars >>

\* every core runs its create call on: the reactor of a core keeps running
\* the function it entered, and Mutex::lock returns once the Mutex is free
SpecConc ==
    /\ InitConc
    /\ [][NextConc]_vars
    /\ \A k \in Cores :
          /\ WF_concStep(\E mode \in PanicModes : Lock(k, mode))
          /\ WF_concStep(\E failAt \in FailPoints, mode \in PanicModes :
                            Body(k, failAt, mode))

(* --------------------------- channel claims --------------------------- *)

QpairLive(c) == qpair[c] \in {"created", "connected", "disconnected"}

\* number of live driver and heap resources attributable to the channel of c
LiveCount(c) ==
      (IF QpairLive(c) THEN 1 ELSE 0)
    + (IF poll_group[c] = "live" THEN 1 ELSE 0)
    + (IF poller[c] = "registered" THEN 1 ELSE 0)
    + (IF innerLive[c] THEN 1 ELSE 0)

\* C1: once create has returned its failure code, no queue pair, poll group,
\* poller or per-channel heap state acquired in that call is still live.
C1_FailedCreateLeavesNothing ==
    \A c \in Ctx :
        (called[c] = "returned" /\ rc[c] # << 0 >>) => LiveCount(c) = 0

\* C2: a successful create followed immediately by destroy on the same
\* context leaves no live resource of that channel (as many as before create).
C2_CreateDestroyBalanced ==
    [][ \A c \in Ctx :
          ( /\ last.op = "create" /\ last.ctx = c
            /\ called[c] = "returned" /\ rc[c] = << 0 >>
            /\ last'.op = "destroy" /\ last'.ctx = c )
          => LiveCount(c)' = 0 ]_vars

\* C3: after destroy has returned the poller of that context is no longer
\* registered and the run loop does not invoke nvme_poll for it again.
C3_NoPollAfterDestroy ==
    \A c \in Ctx :
        destroyed[c] =>
            /\ poller[c] # "registered"
            /\ ~(last.op = "poll" /\ last.ctx = c)

\* C4: when create returned a failure code no poller stays registered for
\* the context, and no poller invocation runs against that channel.
C4_NoPollerAfterFailedCreate ==
    \A c \in Ctx :
        (called[c] = "returned" /\ rc[c] # << 0 >>) =>
            /\ poller[c] # "registered"
            /\ ~(last.op = "poll" /\ last.ctx = c)

\* C6: every create call returns a status code, and the code is 0 exactly
\* when the lookup found the controller and every driver call succeeded.
C6_CreateReturnsStatus ==
    last.op = "create" =>
        /\ called[last.ctx] = "returned"
        /\ rc[last.ctx] \in { << 0 >>, << 1 >> }
        /\ rc[last.ctx] = << 0 >> <=>
              (lookup_by_name(last.dev) /\ last.failAt = "none")

\* C7: in steady state (create returned 0, no destroy yet) a poller invocation
\* that finds the queue pair of its channel disconnected makes exactly one
\* reconnect attempt, and no poller invocation changes the stored handles or
\* frees or allocates a resource.
C7_OneReconnectPerPoll ==
    [][ \A c \in Ctx :
          (last'.op = "poll" /\ last'.ctx = c) =>
            /\ ( /\ called[c] = "returned" /\ rc[c] = << 0 >>
                 /\ ~destroyed[c]
                 /\ member[c] /\ qpair[c] = "disconnected" )
                  => (last'.observed /\ last'.reconnects = 1)
            /\ heap' = heap
            /\ inner' = inner
            /\ \A d \in Ctx :
                  /\ QpairLive(d)' = QpairLive(d)
                  /\ poll_group'[d] = poll_group[d]
                  /\ poller'[d] = poller[d]
                  /\ innerLive'[d] = innerLive[d] ]_vars

C7_Witness ==
    /\ last.op = "poll"
    /\ ~last.dangling
    /\ last.observed
    /\ last.reconnects = 1
    /\ called[last.ctx] = "returned"
    /\ rc[last.ctx] = << 0 >>
    /\ heap[inner[last.ctx]] = [qpair |-> last.ctx, poll_group |-> last.ctx,
                                poller |-> last.ctx]

\* C8: a destroy call on a context that was already destroyed, or that was
\* never created, makes no driver release call and changes no channel state.
C8_SecondDestroyNoOp ==
    [][ \A c \in Ctx :
          ( /\ last'.op = "destroy" /\ last'.ctx = c
            /\ (destroyed[c] \/ called[c] = "fresh") )
          => /\ last'.releases = 0
             /\ UNCHANGED << alive, poisoned, called, rc, qpair, poll_group,
                             poller, member, inner, heap, innerLive >> ]_vars

C8_Witness ==
    /\ last.op = "destroy"
    /\ last.repeat
    /\ called[last.ctx] = "returned"
    /\ rc[last.ctx] = << 0 >>
    /\ destroyed[last.ctx]

\* C12: a create for an identity the registry does not hold returns the
\* failure code without taking a controller guard, without any driver call
\* and without touching the per-channel context.
C12_AbsentControllerNoEffect ==
    (last.op = "create" /\ ~lookup_by_name(last.dev)) =>
        /\ called[last.ctx] = "returned"
        /\ rc[last.ctx] = << 1 >>
        /\ ~last.locked
        /\ last.calls = << >>
        /\ qpair[last.ctx] = "null"
        /\ poll_group[last.ctx] = "null"
        /\ poller[last.ctx] = "null"
        /\ inner[last.ctx] = Null
        /\ ~innerLive[last.ctx]

C12_Witness ==
    /\ last.op = "create"
    /\ last.dev \notin Registered
    /\ rc[last.ctx] = << 1 >>

CallIndex(calls, x) ==
    IF \E i \in 1..Len(calls) : calls[i] = x
    THEN CHOOSE i \in 1..Len(calls) : calls[i] = x
    ELSE 0

Ready(c) == called[c] = "returned" /\ rc[c] = << 0 >>

\* C15: in every ready state (create returned 0) the stored poller, poll
\* group and queue pair handles are non-null and the queue pair is a member of
\* the poll group; the pair was allocated create-only and added to the group
\* before it was connected, and no pair is ever connected outside its group.
C15_ReadyChannelWellFormed ==
    /\ \A c \in Ctx :
          Ready(c) =>
            /\ inner[c] # Null
            /\ heap[inner[c]].qpair # Null
            /\ heap[inner[c]].poll_group # Null
            /\ heap[inner[c]].poller # Null
            /\ QpairLive(c)
            /\ poll_group[c] = "live"
            /\ member[c]
    /\ \A c \in Ctx :
          qpair[c] \in {"connected", "disconnected"} => member[c]
    /\ (last.op = "create" /\ Ready(last.ctx)) =>
          /\ last.create_only
          /\ CallIndex(last.calls, "alloc_io_qpair") > 0
          /\ CallIndex(last.calls, "poll_group_add")
                > CallIndex(last.calls, "alloc_io_qpair")
          /\ CallIndex(last.calls, "connect_io_qpair")
                > CallIndex(last.calls, "poll_group_add")

C15_Witness ==
    /\ last.op = "poll"
    /\ Ready(last.ctx)
    /\ last.reconnects = 1
    /\ qpair[last.ctx] = "connected"

\* the moves of a queue pair that the state machine of the design allows;
\* create allocates and connects within one call
LegalMoves ==
    { << "null", "created" >>, << "null", "connected" >>,
      << "created", "connected" >>, << "connected", "disconnected" >>,
      << "disconnected", "connected" >>,
      << "created", "freed" >>, << "connected", "freed" >>,
      << "disconnected", "freed" >> }

\* C16: a queue pair moves Created, Connected, then any number of
\* Disconnected/Reconnecting/Connected cycles, then Destroyed; no poller
\* invocation and no disconnect callback moves a pair to Destroyed or releases
\* it, Destroyed is entered only by destroy, and nothing leaves Destroyed.
C16_QpairStateMachine ==
    [][ \A c \in Ctx :
          /\ qpair'[c] # qpair[c] =>
                /\ qpair[c] # "freed"
                /\ << qpair[c], qpair'[c] >> \in LegalMoves
                /\ qpair'[c] = "freed" =>
                      (last'.op = "destroy" /\ last'.ctx = c)
          /\ last'.op \in {"poll", "disconnect"} =>
                /\ qpair'[c] # "freed"
                /\ QpairLive(c) => QpairLive(c)'
                /\ member'[c] = member[c]
                /\ poll_group'[c] = poll_group[c]
                /\ innerLive'[c] = innerLive[c]
      ]_vars

C16_Witness ==
    /\ last.op = "poll"
    /\ last.observed
    /\ last.reconnects = 1
    /\ Ready(last.ctx)
    /\ qpair[last.ctx] = "disconnected"

(* ------------------------- attachment claims -------------------------- *)

\* C5: when the future of create was dropped after the driver call, the
\* completion callback that fires later returns normally.
C5_CallbackToleratesAbandon ==
    \A t \in Task : tpc[t] = "abandoned" => cb[t] # "faulted"

\* C9: a create called with a name that is already a local device returns
\* BdevExists, issues no driver creation call and leaves no callback pending.
C9_ExistingNameRejected ==
    \A t \in Task :
        (tpc[t] # "idle" /\ existed[t]) =>
            /\ tpc[t] = "returned"
            /\ result[t].kind = "BdevExists"
            /\ createCalls[t] = 0
            /\ siteErrno[t] = NoRc
            /\ cb[t] = "none"

C9_Witness ==
    \E t \in Task :
        existed[t] /\ result[t].kind = "BdevExists" /\ tname[t] \in bdevs

\* C10: create issues at most one driver creation call; it returns
\* InvalidParams, without waiting for the callback, exactly when that call is
\* rejected at the call site; it returns CreateBdev exactly when the callback
\* reported a nonzero code; it returns the assigned name only after the
\* callback fired with success.
C10_TypedResults ==
    \A t \in Task :
        /\ createCalls[t] <= 1
        /\ result[t].kind = "InvalidParams" <=>
              (tpc[t] = "returned" /\ createCalls[t] = 1
               /\ siteErrno[t] \notin {NoRc, << 0 >>})
        /\ result[t].kind = "InvalidParams" =>
              (cb[t] = "none" /\ ~sent[t].full)
        /\ result[t].kind = "CreateBdev" <=>
              (tpc[t] = "returned" /\ cb[t] = "fired" /\ cbRc[t] # << 0 >>)
        /\ result[t].kind = "Ok" <=>
              (tpc[t] = "returned" /\ cb[t] = "fired" /\ cbRc[t] = << 0 >>)
        /\ result[t].kind = "Ok" =>
              result[t].name = AssignedName(tname[t])

C10_Witness ==
    \E t, u \in Task :
        /\ result[t].kind = "InvalidParams"
        /\ result[u].kind \in {"CreateBdev", "Ok"}
        /\ cb[u] = "fired"

(* ------------------------- detachment claims -------------------------- *)

\* C11: a destroy called with a name that is no local device returns
\* BdevNotFound, issues no driver delete call and leaves the local devices
\* as they were.
C11_UnknownNameNotFound ==
    [][ (dlast' # dlast /\ ~dlast'.found) =>
            /\ dlast'.kind = "BdevNotFound"
            /\ dlast'.name = dlast'.bdev_name
            /\ dlast'.deleteCalls = 0
            /\ dlast'.errno = NoRc
            /\ bdevs' = bdevs ]_vars

C11_Witness ==
    /\ dlast.called
    /\ ~dlast.found
    /\ dlast.bdev_name \notin bdevs
    /\ dlast.kind = "BdevNotFound"
    /\ bdevs # {}

\* C17: a destroy whose looked-up name is a local device issues exactly one
\* driver delete call, for the name that was looked up, and returns Ok exactly
\* when the delete reports 0 and DestroyBdev otherwise.
C17_DeleteLookedUpName ==
    (dlast.called /\ dlast.found) =>
        /\ dlast.deleteCalls = 1
        /\ dlast.target = dlast.bdev_name
        /\ dlast.kind = "Ok" <=> dlast.errno = << 0 >>
        /\ dlast.kind = "DestroyBdev" <=> dlast.errno # << 0 >>

(* -------------------------- URL parsing claims ------------------------ *)

HasKey(q, k) == \E i \in 1 .. Len(q) : q[i][1] = k

Recognized(kv) == kv[1] \in {"hostnqn", "reftag", "guard"}

\* the text of the ports of Ports, written out
PortText(p) == IF p = 80 THEN << "8", "0" >> ELSE << "4", "4", "2", "0" >>

\* C13: a parse fails with PathMissing exactly for a URL without path
\* segments; a parse that yields a request has the port, or 4420 without a
\* port, as service id, the path segment as subsystem identifier, the reftag
\* and guard flags set exactly for the keys present, and the same fields as
\* the parse of the URL without its unrecognized query keys.
C13_UrlToRequest ==
    parsed.kind # "none" =>
        /\ parsed.kind = "PathMissing" <=> url.path = << >>
        /\ parsed.kind = "PathMissing" => parsed.req = DefaultBdev
        /\ parsed.kind = "Ok" =>
            /\ parsed.req.trsvcid =
                  (IF url.port = << >> THEN << "4", "4", "2", "0" >>
                   ELSE PortText(url.port[1]))
            /\ parsed.req.subnqn = url.path[1][1]
            /\ parsed.req.prchk_reftag <=> HasKey(url.query, "reftag")
            /\ parsed.req.prchk_guard <=> HasKey(url.query, "guard")
            /\ parsed.req =
                  [try_from([url EXCEPT
                       !.query = SelectSeq(url.query, Recognized)]).req
                   EXCEPT !.name = << url >>]

C13_Witness ==
    /\ parsed.kind = "Ok"
    /\ url.port = << >>
    /\ parsed.req.trsvcid = << "4", "4", "2", "0" >>
    /\ HasKey(url.query, "foo")
    /\ HasKey(url.query, "reftag")
    /\ parsed.req.prchk_reftag
    /\ ~parsed.req.prchk_guard

(* ------------------------- queue depth claims ------------------------- *)

\* C18: the queue depth used to allocate a channel's queue pair is the larger
\* of the controller's transport default and the configured default, for
\* every pair of values: it is one of the two and below neither.
C18_LargerQueueDepth ==
    qd.allocated =>
        /\ qd.used \in {qd.opt, qd.cfg}
        /\ qd.used >= qd.opt
        /\ qd.used >= qd.cfg

C18_Witness ==
    /\ qd.allocated
    /\ qd.opt > qd.cfg
    /\ qd.cfg > 0
    /\ qd.used = qd.opt

(* ---------------------- concurrent create claims ---------------------- *)

\* at most one core holds the guard of a controller
MutualExclusion ==
    \A k1, k2 \in Cores :
        (k1 # k2 /\ cpc[k1] = "held" /\ cpc[k2] = "held")
            => cdev[k1] # cdev[k2]

\* the guard of a controller is locked exactly while a core is inside the
\* guarded part of create for it: every return has released it
ReleasedOnReturn ==
    alive =>
        \A d \in Registered :
            guard[d] <=> \E k \in Cores : cpc[k] = "held" /\ cdev[k] = d

\* C19: of the cores running create for one controller at most one holds the
\* controller's guard, the guard is released on every return path, and every
\* call that waits for the guard eventually acquires it and returns.
C19_GuardedCreateReturns ==
    /\ [](MutualExclusion /\ ReleasedOnReturn)
    /\ \A k \in Cores : (cpc[k] = "locking") ~> (cpc[k] = "returned")

====
